---- MODULE Spec2Model ----
(***************************************************************************)
(* Payment-settlement verification core of the e-commerce backend:         *)
(* the validateCryptoPayment middleware followed by the verifyCryptoPayment*)
(* controller, the cache client selected by lib/redis.js and the order     *)
(* schema of models/order.model.js.                                        *)
(*                                                                         *)
(* One request is executed by one worker; every `await` of the code is a   *)
(* separate step, so workers interleave exactly where the code can yield.  *)
(* Time is the cache server's clock in seconds; Tick advances it and       *)
(* removes the keys whose TTL has passed.                                  *)
(*                                                                         *)
(* lib/blockchain.js is modelled next to it: the two transports with their *)
(* flags, retry counters, timers and provider events, the contract artifact*)
(* loader, and the PaymentProcessed event subscriber of                    *)
(* payment.middleware.js.                                                  *)
(***************************************************************************)
EXTENDS Integers, Naturals, Sequences, FiniteSets, TLC

VARIABLES
    client,                 \* which redisClient lib/redis.js constructed
    now,                    \* clock, seconds
    ticks,                  \* number of clock advances so far (bounded)
    cache,                  \* key -> [val, exp] ; exp = NoExpiry when no TTL
    orders,                 \* documents persisted by order.save()
    isBlockchainAvailable,  \* lib/blockchain.js module flag
    wk,                     \* worker -> the request it executes
    nreq,                   \* requests received so far (bounded)
    admits,                 \* history: times, within the last 60 s, at which a request passed the rate gate
    faults,                 \* cache outages the environment can still cause (bounded)
    blockchainRetryCount,   \* lib/blockchain.js module counter (call transport)
    isWebSocketAvailable,   \* lib/blockchain.js module flag (push transport)
    wsRetryCount,           \* lib/blockchain.js module counter (push transport)
    pendingProbes,          \* getBlockNumber() promises of createHttpProvider not yet settled
    wsTests,                \* 1 s connection tests of createWebSocketProvider not yet run
    wsTimeouts,             \* setTimeout(createWebSocketProvider, ...) not yet fired
    intervals,              \* firings of the 15 s reconnection timer so far (bounded)
    artifact,               \* PaymentProcessor.json on disk: [kind, version, mtime]
    PaymentProcessor,       \* lib/blockchain.js module variable (parsed artifact)
    lastContractLoadTime,   \* lib/blockchain.js module variable
    loading,                \* where loadContractAbi stands
    binder,                 \* a getPaymentProcessorContract call: its position
    bindings,               \* history: contract instances built so far
    checked,                \* history: a reload check has run since the last write of the artifact
    rewrites,               \* writes of the artifact so far (bounded)
    web3Ws,                 \* lib/blockchain.js module variable: the provider it is bound to
    wsBuilt,                \* WebsocketProvider objects constructed so far (bounded)
    wsLinked,               \* the providers whose socket is open
    sub,                    \* where the event subscriber stands
    retryCount,             \* payment.middleware.js module counter
    startDelay,             \* delay of the pending setTimeout(initializeEventListeners, ...), or Nil
    lastEvent               \* history: the last PaymentProcessed event handed to the 'data' handler

payVars == <<client, now, ticks, cache, orders, wk, nreq, admits, faults>>

chainVars == <<blockchainRetryCount, isWebSocketAvailable, wsRetryCount,
               pendingProbes, wsTests, wsTimeouts, intervals, web3Ws, wsBuilt,
               wsLinked>>

loaderVars == <<artifact, PaymentProcessor, lastContractLoadTime, loading,
                binder, bindings, checked, rewrites>>

subVars == <<sub, retryCount, startDelay, lastEvent>>

vars == <<client, now, ticks, cache, orders, isBlockchainAvailable, wk, nreq,
          admits, faults, chainVars, loaderVars, subVars>>

----------------------------------------------------------------------------
(* Bounds of the model *)

MaxRequests == 2
MaxRateRequests == 12
MaxTicks == 1
MaxRateTicks == 2
MaxFaults == 1
MaxRateFaults == 0
MaxIntervals == 6
MaxPending == 1
MaxRewrites == 2
MaxVersions == 2
MaxLoaderTicks == 2
MaxOutages == 2
MaxProviders == 2
MaxProbes == 2
MaxAmounts == 2
MaxEventRequests == 1

Workers == {"w1", "w2"}
RateWorkers == {"w1"}
Hashes == {1}
Wallet == "0xWallet"
Delays == {300}
RateDelays == {30}
PaymentIds == {1}

(* Program constants *)

LOCK_TTL == 300
RATE_WINDOW == 60
RATE_LIMIT == 10
PROCESSED_TTL == 604800

Nil == -1
NoExpiry == -1

MAX_BLOCKCHAIN_RETRIES == 5
MAX_WS_RETRIES == 10

\* payment.middleware.js: the subscriber's timers (seconds), its retry cap
\* and the lifetime of a settlement event record
START_DELAY == 5
RETRY_DELAY == 10
maxRetries == 3
EVENT_TTL == 259200

\* let lastContractLoadTime = 0: the Unix epoch.  The model's clock counts from
\* the start of the process, so the epoch lies before every time it shows.
EPOCH == -1

Clients == {"ioredis", "rest", "mock"}

----------------------------------------------------------------------------
(* Cache keys and the three cache clients *)

LockKey(h) == <<"tx-processing", h>>
TxKey(h) == <<"tx", h>>
WalletKey(a) == <<"wallet-requests", a>>
PaymentKey(p) == <<"payment", p>>

\* Methods each client object has.  The REST client and the in-memory mock
\* define get/set/del/ping only.
Supports(cl, op) ==
    IF cl = "ioredis" THEN TRUE ELSE op \in {"get", "set", "del", "ping"}

\* How a call to an existing method can end: the two networked clients can
\* throw (cache unreachable), the in-memory Map cannot.
CacheOutcomes(cl) ==
    IF cl = "mock" \/ faults = 0 THEN {"ok"} ELSE {"ok", "down"}

CacheGet(c, k) == IF k \in DOMAIN c THEN c[k].val ELSE Nil

Put(c, k, e) == [x \in DOMAIN c \cup {k} |-> IF x = k THEN e ELSE c[x]]

\* redis.set(key, value, 'EX', ttl): the mock's set takes (key, value) only.
CacheSetEx(cl, c, k, v, ttl, t) ==
    IF cl = "mock"
    THEN Put(c, k, [val |-> v, exp |-> NoExpiry])
    ELSE Put(c, k, [val |-> v, exp |-> t + ttl])

\* INCR: creates the key at 1 without TTL, otherwise adds one and keeps the TTL.
CacheIncr(c, k) ==
    IF k \in DOMAIN c
    THEN Put(c, k, [val |-> c[k].val + 1, exp |-> c[k].exp])
    ELSE Put(c, k, [val |-> 1, exp |-> NoExpiry])

\* EXPIRE: sets the TTL of an existing key.
CacheExpire(c, k, ttl, t) ==
    IF k \in DOMAIN c
    THEN Put(c, k, [val |-> c[k].val, exp |-> t + ttl])
    ELSE c

\* The cache server drops a key once its TTL has passed.
Purge(c, t) ==
    [k \in {x \in DOMAIN c : c[x].exp = NoExpiry \/ t < c[x].exp} |-> c[k]]

----------------------------------------------------------------------------
(* Requests *)

GoodBody == [products |-> "list", paymentId |-> TRUE, walletAddress |-> "address",
             transactionHash |-> "hash", amount |-> "positive"]

\* One representative body per structural check, and the well-formed one.
ReqBodies ==
    {GoodBody,
     [GoodBody EXCEPT !.products = "empty"],
     [GoodBody EXCEPT !.paymentId = FALSE],
     [GoodBody EXCEPT !.walletAddress = "absent"],
     [GoodBody EXCEPT !.transactionHash = "absent"],
     [GoodBody EXCEPT !.amount = "nonpositive"],
     [GoodBody EXCEPT !.walletAddress = "malformed"],
     [GoodBody EXCEPT !.transactionHash = "malformed"]}

\* The synchronous checks at the head of validateCryptoPayment, in order.
StructuralError(b) ==
    IF b.products \in {"absent", "notArray", "empty"} THEN "Invalid products data"
    ELSE IF ~b.paymentId THEN "Payment ID is required"
    ELSE IF b.walletAddress = "absent" THEN "Wallet address is required"
    ELSE IF b.transactionHash = "absent" THEN "Transaction hash is required"
    ELSE IF b.amount \in {"absent", "nan", "nonpositive"} THEN "Invalid amount"
    ELSE IF b.walletAddress # "address" THEN "Invalid wallet address format"
    ELSE IF b.transactionHash # "hash" THEN "Invalid transaction hash format"
    ELSE "none"

\* HTTP status and retryable flag of each response the two handlers send.
StatusOf(r) ==
    CASE r = "Success" -> 200
      [] r \in {"InvalidRequest", "AlreadyProcessed", "TransactionFailed",
                "NotSettled", "WrongRecipient"} -> 400
      [] r \in {"InFlight", "RateLimited"} -> 429
      [] r = "ServiceUnavailable" -> 503
      [] OTHER -> 500

\* The retryable flag with the 503 response left out.
RetryableOnly500(r) == r \in {"ContractError", "BlockchainError"}

Retryable(r) == r \in {"ServiceUnavailable", "ContractError", "BlockchainError"}

\* retryAfter of the responses that carry one (seconds); Nil when absent.
RetryAfter(r) ==
    CASE r = "InFlight" -> 5
      [] r \in {"RateLimited", "ServiceUnavailable"} -> 60
      [] OTHER -> Nil

IdleWorker ==
    [pc |-> "idle", hash |-> Nil, replay |-> FALSE,
     lockSeen |-> Nil, tget |-> Nil, locked |-> FALSE,
     rcpt |-> "none", pstat |-> "none", rcp |-> "none",
     cacheDown |-> FALSE, saved |-> FALSE, resp |-> "none"]

Respond(w, r) == [wk[w] EXCEPT !.pc = "done", !.resp = r]

----------------------------------------------------------------------------
(* Order schema *)

StatusEnum == {"pending", "processing", "shipped", "delivered", "cancelled"}
PaymentMethodEnum == {"stripe", "crypto"}

\* The document verifyCryptoPayment builds.  Paths the schema does not declare
\* (productId, name, amount) are dropped by mongoose; the declared paths
\* products[].product and totalAmount are never given.
OrderDoc(h) ==
    [user |-> "user", product |-> "none", quantity |-> 1, price |-> "number",
     totalAmount |-> "none", status |-> "completed", paymentMethod |-> "crypto",
     transactionHash |-> h]

\* The validators of orderSchema that save() runs.
SchemaValid(d) ==
    /\ d.user # "none"
    /\ d.product # "none"
    /\ d.quantity >= 1
    /\ d.price # "none"
    /\ d.totalAmount # "none"
    /\ d.status \in StatusEnum
    /\ d.paymentMethod \in PaymentMethodEnum

OrdersFor(h) == {o \in orders : o.transactionHash = h}

----------------------------------------------------------------------------
Started(outages) ==
    /\ client \in Clients
    /\ now = 0
    /\ ticks = 0
    /\ cache = [k \in {} |-> [val |-> Nil, exp |-> NoExpiry]]
    /\ orders = {}
    /\ isBlockchainAvailable = FALSE
    /\ wk = [w \in Workers |-> IdleWorker]
    /\ nreq = 0
    /\ admits = <<>>
    /\ faults = outages

\* The artifact file and what the loader can find in it.
NoArtifact == [kind |-> "absent", version |-> Nil, mtime |-> 0]

ArtifactKinds == {"absent", "badjson", "noshape", "artifact"}

\* No event has been delivered yet.
NoEvent ==
    [paymentId |-> Nil, payer |-> "", amount |-> Nil, date |-> Nil,
     tokenAddress |-> "", blockNumber |-> Nil, transactionHash |-> Nil]

\* let PaymentProcessor = { networks: {} }
Placeholder == [abi |-> Nil, networks |-> TRUE, address |-> Nil]

\* lib/blockchain.js as its top-level statements leave it, up to the initial
\* loadContractAbi(), with the artifact the process finds on disk.
ModuleLoaded(files) ==
    /\ blockchainRetryCount = 0
    /\ isWebSocketAvailable = FALSE
    /\ wsRetryCount = 0
    /\ pendingProbes = 1
    /\ wsTests = 1
    /\ wsTimeouts = 0
    /\ intervals = 0
    /\ artifact \in files
    /\ PaymentProcessor = Placeholder
    /\ lastContractLoadTime = EPOCH
    /\ loading = "boot"
    /\ binder = "idle"
    /\ bindings = {}
    /\ checked = FALSE
    /\ rewrites = 0
    /\ web3Ws = 1
    /\ wsBuilt = 1
    /\ wsLinked = {}
    /\ sub = "idle"
    /\ retryCount = 0
    /\ startDelay = START_DELAY
    /\ lastEvent = NoEvent

Init == Started(MaxFaults) /\ ModuleLoaded({NoArtifact})
InitRate == Started(MaxRateFaults) /\ ModuleLoaded({NoArtifact})

----------------------------------------------------------------------------
(* validateCryptoPayment *)

\* The request passed the three ledger checks of the controller.
LedgerVerified(r) == r.rcpt = "ok" /\ r.pstat = "true" /\ r.rcp = "match"

\* History: a request for h that passed the ledger checks has already been
\* answered when this one arrives.
Replayed(h) ==
    \E v \in Workers :
        wk[v].pc = "done" /\ wk[v].hash = h /\ LedgerVerified(wk[v])

\* A request arrives; the structural checks run synchronously up to the
\* first cache call.
Arrive(w, b, h, limit) ==
    /\ wk[w].pc \in {"idle", "done"}
    /\ nreq < limit
    /\ nreq' = nreq + 1
    /\ IF StructuralError(b) # "none"
       THEN wk' = [wk EXCEPT ![w] = [IdleWorker EXCEPT !.pc = "done",
                                       !.resp = "InvalidRequest"]]
       ELSE wk' = [wk EXCEPT ![w] = [IdleWorker EXCEPT
                        !.pc = "v_get", !.hash = h, !.replay = Replayed(h)]]
    /\ UNCHANGED <<client, now, ticks, cache, orders, isBlockchainAvailable,
                   admits, faults>>
    /\ UNCHANGED <<chainVars, loaderVars, subVars>>

\* A cache call threw inside the middleware's try: the catch logs and the
\* request goes on to the controller.
CacheThrewInMiddleware(w) ==
    /\ wk' = [wk EXCEPT ![w].pc = "c_gettx", ![w].cacheDown = TRUE]
    /\ faults' = faults - 1
    /\ UNCHANGED <<cache, admits>>

\* const cachedTx = await redis.get(`tx-processing:${transactionHash}`)
LockCheck(w) ==
    /\ wk[w].pc = "v_get"
    /\ \E out \in CacheOutcomes(client) :
         IF out = "down" THEN CacheThrewInMiddleware(w)
         ELSE LET v == CacheGet(cache, LockKey(wk[w].hash)) IN
              /\ IF v # Nil
                 THEN wk' = [wk EXCEPT ![w].pc = "done", ![w].resp = "InFlight",
                                       ![w].lockSeen = v, ![w].tget = now]
                 ELSE wk' = [wk EXCEPT ![w].pc = "v_set", ![w].tget = now]
              /\ UNCHANGED <<cache, admits, faults>>
    /\ UNCHANGED <<client, now, ticks, orders, isBlockchainAvailable, nreq>>
    /\ UNCHANGED <<chainVars, loaderVars, subVars>>

\* await redis.set(`tx-processing:${transactionHash}`, Date.now().toString(), 'EX', 300)
LockSet(w) ==
    /\ wk[w].pc = "v_set"
    /\ \E out \in CacheOutcomes(client) :
         IF out = "down" THEN CacheThrewInMiddleware(w)
         ELSE /\ cache' = CacheSetEx(client, cache, LockKey(wk[w].hash), now,
                                     LOCK_TTL, now)
              /\ wk' = [wk EXCEPT ![w].pc = "v_incr", ![w].locked = TRUE]
              /\ UNCHANGED <<admits, faults>>
    /\ UNCHANGED <<client, now, ticks, orders, isBlockchainAvailable, nreq>>
    /\ UNCHANGED <<chainVars, loaderVars, subVars>>

\* if (walletRequestCount > 10)
OverLimit(n) == n > RATE_LIMIT

\* const walletRequestCount = await redis.incr(`wallet-requests:${walletAddress}`)
RateIncr(w) ==
    /\ wk[w].pc = "v_incr"
    /\ IF ~Supports(client, "incr")
       THEN \* redis.incr is not a function: TypeError, caught, next()
            /\ wk' = [wk EXCEPT ![w].pc = "c_gettx"]
            /\ admits' = Append(admits, now)
            /\ UNCHANGED <<cache, faults>>
       ELSE \E out \in CacheOutcomes(client) :
            IF out = "down" THEN CacheThrewInMiddleware(w)
            ELSE LET c2 == CacheIncr(cache, WalletKey(Wallet))
                     n  == c2[WalletKey(Wallet)].val IN
                 /\ cache' = c2
                 /\ faults' = faults
                 /\ IF n = 1
                    THEN /\ wk' = [wk EXCEPT ![w].pc = "v_expire"]
                         /\ admits' = admits
                    ELSE IF OverLimit(n)
                    THEN /\ wk' = [wk EXCEPT ![w] = Respond(w, "RateLimited")]
                         /\ admits' = admits
                    ELSE /\ wk' = [wk EXCEPT ![w].pc = "c_gettx"]
                         /\ admits' = Append(admits, now)
    /\ UNCHANGED <<client, now, ticks, orders, isBlockchainAvailable, nreq>>
    /\ UNCHANGED <<chainVars, loaderVars, subVars>>

\* if (walletRequestCount === 1) await redis.expire(`wallet-requests:...`, 60)
RateExpire(w) ==
    /\ wk[w].pc = "v_expire"
    /\ \E out \in CacheOutcomes(client) :
         IF out = "down" THEN CacheThrewInMiddleware(w)
         ELSE /\ cache' = CacheExpire(cache, WalletKey(Wallet), RATE_WINDOW, now)
              /\ wk' = [wk EXCEPT ![w].pc = "c_gettx"]
              /\ admits' = Append(admits, now)
              /\ faults' = faults
    /\ UNCHANGED <<client, now, ticks, orders, isBlockchainAvailable, nreq>>
    /\ UNCHANGED <<chainVars, loaderVars, subVars>>

----------------------------------------------------------------------------
(* verifyCryptoPayment *)

\* Addresses are hex strings; toLowerCase() forgets the checksum casing.
ContractAddress == [hex |-> "c0ffee", casing |-> "checksum"]
ToLower(a) == [a EXCEPT !.casing = "lower"]

\* What web3.eth.getTransaction can resolve to: no transaction, a transaction
\* without recipient (contract creation), or one sent to some address.
NoTx == [hex |-> "", casing |-> "notx"]
NoTo == [hex |-> "", casing |-> "null"]
Transactions ==
    {NoTx, NoTo, ContractAddress, ToLower(ContractAddress),
     [hex |-> "beef", casing |-> "checksum"]}

\* The receipt check with the status test dropped.
ReceiptRejectedNoStatus(r) == r = "missing"

\* if (!receipt || !receipt.status)
ReceiptRejected(r) == r = "missing" \/ r = "failed"

\* The status gate that lets a payment through when the subscriber has
\* recorded a settlement event, whatever the contract call returned.
StatusRejectedUnlessRecorded(s) ==
    s = "false" /\ \A p \in PaymentIds : PaymentKey(p) \notin DOMAIN cache

\* if (!paymentStatus)
StatusRejected(s) == s = "false"

\* The recipient check with the address comparison dropped.
RecipientRejectedNoCompare(t) == t = NoTx

\* if (!transaction || transaction.to.toLowerCase() !== contract.options.address.toLowerCase())
RecipientRejected(t) == t = NoTx \/ ToLower(t) # ToLower(ContractAddress)

\* const cachedTransaction = await redis.get(`tx:${transactionHash}`)
ProcessedCheck(w) ==
    /\ wk[w].pc = "c_gettx"
    /\ \E out \in CacheOutcomes(client) :
         IF out = "down"
         THEN \* thrown outside the inner try: the outer catch answers 500
              /\ wk' = [wk EXCEPT ![w].pc = "done", ![w].cacheDown = TRUE,
                                  ![w].resp = "UnexpectedError"]
              /\ faults' = faults - 1
         ELSE /\ IF CacheGet(cache, TxKey(wk[w].hash)) # Nil
                 THEN wk' = [wk EXCEPT ![w] = Respond(w, "AlreadyProcessed")]
                 ELSE wk' = [wk EXCEPT ![w].pc = "c_health"]
              /\ faults' = faults
    /\ UNCHANGED <<client, now, ticks, cache, orders, isBlockchainAvailable,
                   nreq, admits>>
    /\ UNCHANGED <<chainVars, loaderVars, subVars>>

\* const isHealthy = await isBlockchainHealthy()
HealthGate(w) ==
    /\ wk[w].pc = "c_health"
    /\ \E up \in BOOLEAN :
         /\ isBlockchainAvailable' = up
         /\ IF up
            THEN wk' = [wk EXCEPT ![w].pc = "c_receipt"]
            ELSE wk' = [wk EXCEPT ![w] = Respond(w, "ServiceUnavailable")]
    /\ UNCHANGED <<client, now, ticks, cache, orders, nreq, admits, faults>>
    /\ UNCHANGED <<chainVars, loaderVars, subVars>>

\* const receipt = await web3.eth.getTransactionReceipt(transactionHash)
FetchReceipt(w) ==
    /\ wk[w].pc = "c_receipt"
    /\ \E r \in {"ok", "failed", "missing", "error"} :
         IF r = "error"
         THEN wk' = [wk EXCEPT ![w] = [Respond(w, "BlockchainError") EXCEPT !.rcpt = r]]
         ELSE IF ReceiptRejected(r)
         THEN wk' = [wk EXCEPT ![w] = [Respond(w, "TransactionFailed") EXCEPT !.rcpt = r]]
         ELSE wk' = [wk EXCEPT ![w].pc = "c_contract", ![w].rcpt = r]
    /\ UNCHANGED <<client, now, ticks, cache, orders, isBlockchainAvailable,
                   nreq, admits, faults>>
    /\ UNCHANGED <<chainVars, loaderVars, subVars>>

\* const contract = await getPaymentProcessorContract()
\* null when the flag is down, when the probe fails or when the artifact
\* has no deployment for the network.
GetContract(w) ==
    /\ wk[w].pc = "c_contract"
    /\ IF ~isBlockchainAvailable
       THEN /\ wk' = [wk EXCEPT ![w] = Respond(w, "ServiceUnavailable")]
            /\ UNCHANGED isBlockchainAvailable
       ELSE \E up \in BOOLEAN, deployed \in BOOLEAN :
            /\ isBlockchainAvailable' = up
            /\ IF up /\ deployed
               THEN wk' = [wk EXCEPT ![w].pc = "c_status"]
               ELSE wk' = [wk EXCEPT ![w] = Respond(w, "ServiceUnavailable")]
    /\ UNCHANGED <<client, now, ticks, cache, orders, nreq, admits, faults>>
    /\ UNCHANGED <<chainVars, loaderVars, subVars>>

\* const paymentStatus = await contract.methods.getPaymentStatus(paymentId).call()
ContractStatus(w) ==
    /\ wk[w].pc = "c_status"
    /\ \E s \in {"true", "false", "error"} :
         IF s = "error"
         THEN wk' = [wk EXCEPT ![w] = [Respond(w, "ContractError") EXCEPT !.pstat = s]]
         ELSE IF StatusRejected(s)
         THEN wk' = [wk EXCEPT ![w] = [Respond(w, "NotSettled") EXCEPT !.pstat = s]]
         ELSE wk' = [wk EXCEPT ![w].pc = "c_gettxn", ![w].pstat = s]
    /\ UNCHANGED <<client, now, ticks, cache, orders, isBlockchainAvailable,
                   nreq, admits, faults>>
    /\ UNCHANGED <<chainVars, loaderVars, subVars>>

\* How the recipient of the fetched transaction compares with the contract.
RecipientClass(t) ==
    IF t = NoTx THEN "notx"
    ELSE IF t = NoTo THEN "null"
    ELSE IF ToLower(t) = ToLower(ContractAddress) THEN "match"
    ELSE "other"

\* const transaction = await web3.eth.getTransaction(transactionHash)
CheckRecipient(w) ==
    /\ wk[w].pc = "c_gettxn"
    /\ \/ \* the call rejects
          wk' = [wk EXCEPT ![w] = [Respond(w, "BlockchainError") EXCEPT !.rcp = "error"]]
       \/ \E t \in Transactions :
            IF t = NoTo
            THEN \* null.toLowerCase(): TypeError, caught by the inner catch
                 wk' = [wk EXCEPT ![w] = [Respond(w, "BlockchainError")
                                            EXCEPT !.rcp = RecipientClass(t)]]
            ELSE IF RecipientRejected(t)
            THEN wk' = [wk EXCEPT ![w] = [Respond(w, "WrongRecipient")
                                            EXCEPT !.rcp = RecipientClass(t)]]
            ELSE wk' = [wk EXCEPT ![w].pc = "c_save", ![w].rcp = RecipientClass(t)]
    /\ UNCHANGED <<client, now, ticks, cache, orders, isBlockchainAvailable,
                   nreq, admits, faults>>
    /\ UNCHANGED <<chainVars, loaderVars, subVars>>

\* await order.save(), then await redis.set(`tx:${transactionHash}`, ..., 'EX', 604800).
\* save() runs the schema validators and rejects with a ValidationError, which
\* the inner catch turns into the retryable 500; the commit is the step after
\* a save() that resolved.
PersistOrder(w) ==
    /\ wk[w].pc \in {"c_save", "c_commit"}
    /\ IF wk[w].pc = "c_save"
       THEN LET d == OrderDoc(wk[w].hash) IN
            IF SchemaValid(d)
            THEN /\ orders' = orders \cup {[id |-> Cardinality(orders) + 1,
                                            transactionHash |-> d.transactionHash]}
                 /\ wk' = [wk EXCEPT ![w].pc = "c_commit", ![w].saved = TRUE]
                 /\ UNCHANGED <<cache, faults>>
            ELSE /\ wk' = [wk EXCEPT ![w] = Respond(w, "BlockchainError")]
                 /\ UNCHANGED <<orders, cache, faults>>
       ELSE \E out \in CacheOutcomes(client) :
            IF out = "down"
            THEN /\ wk' = [wk EXCEPT ![w] = Respond(w, "BlockchainError")]
                 /\ faults' = faults - 1
                 /\ UNCHANGED <<orders, cache>>
            ELSE /\ cache' = CacheSetEx(client, cache, TxKey(wk[w].hash),
                                        Cardinality(orders), PROCESSED_TTL, now)
                 /\ wk' = [wk EXCEPT ![w] = Respond(w, "Success")]
                 /\ UNCHANGED <<orders, faults>>
    /\ UNCHANGED <<client, now, ticks, isBlockchainAvailable, nreq, admits>>
    /\ UNCHANGED <<chainVars, loaderVars, subVars>>

----------------------------------------------------------------------------
\* Admissions that can still share a 60 s interval with a later one.
Recent(a, t) == SelectSeq(a, LAMBDA x : t < x + RATE_WINDOW)

\* Time passes; the cache server expires keys.
Tick(d, limit) ==
    /\ ticks < limit
    /\ ticks' = ticks + 1
    /\ now' = now + d
    /\ cache' = Purge(cache, now')
    /\ admits' = Recent(admits, now')
    /\ UNCHANGED <<client, orders, isBlockchainAvailable, wk, nreq, faults>>
    /\ UNCHANGED <<chainVars, loaderVars, subVars>>

----------------------------------------------------------------------------
(* Transports: lib/blockchain.js *)

\* createHttpProvider(): a new provider and a getBlockNumber() probe whose
\* promise settles later.
CreateHttpProvider == pendingProbes' = pendingProbes + 1

\* .then / .catch of the probe started by createHttpProvider
ProbeSettled ==
    /\ pendingProbes > 0
    /\ pendingProbes' = pendingProbes - 1
    /\ \E ok \in BOOLEAN :
         IF ok
         THEN isBlockchainAvailable' = TRUE /\ blockchainRetryCount' = 0
         ELSE isBlockchainAvailable' = FALSE /\ UNCHANGED blockchainRetryCount
    /\ UNCHANGED <<isWebSocketAvailable, wsRetryCount, wsTests, wsTimeouts,
                   intervals, web3Ws, wsBuilt, wsLinked>>
    /\ UNCHANGED <<payVars, loaderVars, subVars>>

\* web3Ws = web3: the call transport's provider, which carries no socket.
HttpFallback == 0

\* The catch of createWebSocketProvider, entered with the counter at n, which
\* schedules a retry whatever n is.
WsConstructorThrewUncapped(n) ==
    /\ isWebSocketAvailable' = FALSE
    /\ wsRetryCount' = n + 1
    /\ wsTimeouts' = wsTimeouts + 1
    /\ UNCHANGED <<wsTests, web3Ws, wsBuilt, wsLinked>>

\* The catch of createWebSocketProvider, entered with the counter at n.
WsConstructorThrew(n) ==
    /\ isWebSocketAvailable' = FALSE
    /\ IF n < MAX_WS_RETRIES
       THEN /\ wsRetryCount' = n + 1
            /\ wsTimeouts' = wsTimeouts + 1
            /\ UNCHANGED web3Ws
       ELSE /\ wsRetryCount' = n
            /\ web3Ws' = HttpFallback
            /\ UNCHANGED wsTimeouts
    /\ UNCHANGED <<wsTests, wsBuilt, wsLinked>>

\* createWebSocketProvider(), entered with the counter at n: the constructor
\* returns a provider, which web3Ws is bound to (listeners attached, 1 s test
\* scheduled), or throws. Providers built earlier are not closed: they stay
\* alive and keep emitting their events.
CreateWebSocketProvider(n) ==
    \/ /\ wsBuilt < MaxProviders
       /\ wsBuilt' = wsBuilt + 1
       /\ web3Ws' = wsBuilt + 1
       /\ wsTests' = wsTests + 1
       /\ wsRetryCount' = n
       /\ UNCHANGED <<isWebSocketAvailable, wsTimeouts, wsLinked>>
    \/ WsConstructorThrew(n)

\* The 15 s setInterval callback.
ReconnectTimer ==
    /\ intervals < MaxIntervals
    /\ pendingProbes < MaxProbes
    /\ intervals' = intervals + 1
    /\ IF ~isBlockchainAvailable /\ blockchainRetryCount < MAX_BLOCKCHAIN_RETRIES
       THEN blockchainRetryCount' = blockchainRetryCount + 1 /\ CreateHttpProvider
       ELSE UNCHANGED <<blockchainRetryCount, pendingProbes>>
    /\ IF ~isWebSocketAvailable /\ wsRetryCount < MAX_WS_RETRIES
       THEN CreateWebSocketProvider(wsRetryCount + 1)
       ELSE UNCHANGED <<isWebSocketAvailable, wsRetryCount, wsTests, wsTimeouts,
                        web3Ws, wsBuilt, wsLinked>>
    /\ UNCHANGED isBlockchainAvailable
    /\ UNCHANGED <<payVars, loaderVars, subVars>>

\* setTimeout(createWebSocketProvider, 3000 or 5000) fires; a retry the
\* catch schedules takes the place of the one that fired.
WsRetryTimeout ==
    /\ wsTimeouts > 0
    /\ \/ /\ wsBuilt < MaxProviders
          /\ wsBuilt' = wsBuilt + 1
          /\ web3Ws' = wsBuilt + 1
          /\ wsTests' = wsTests + 1
          /\ wsTimeouts' = wsTimeouts - 1
          /\ UNCHANGED <<isWebSocketAvailable, wsRetryCount, wsLinked>>
       \/ /\ isWebSocketAvailable' = FALSE
          /\ IF wsRetryCount < MAX_WS_RETRIES
             THEN /\ wsRetryCount' = wsRetryCount + 1
                  /\ UNCHANGED <<wsTimeouts, web3Ws>>
             ELSE /\ wsTimeouts' = wsTimeouts - 1
                  /\ web3Ws' = HttpFallback
                  /\ UNCHANGED wsRetryCount
          /\ UNCHANGED <<wsTests, wsBuilt, wsLinked>>
    /\ UNCHANGED <<isBlockchainAvailable, blockchainRetryCount, pendingProbes, intervals>>
    /\ UNCHANGED <<payVars, loaderVars, subVars>>

\* webSocketProvider.on('connect') of provider p, current or replaced: its
\* socket has opened.
WsConnect(p) ==
    /\ p \notin wsLinked
    /\ wsLinked' = wsLinked \cup {p}
    /\ isWebSocketAvailable' = TRUE
    /\ wsRetryCount' = 0
    /\ UNCHANGED <<isBlockchainAvailable, blockchainRetryCount, pendingProbes,
                   wsTests, wsTimeouts, intervals, web3Ws, wsBuilt>>
    /\ UNCHANGED <<payVars, loaderVars, subVars>>

\* webSocketProvider.on('error') of provider p; the socket is not closed by
\* the event.
WsError(p) ==
    /\ isWebSocketAvailable' = FALSE
    /\ UNCHANGED <<isBlockchainAvailable, blockchainRetryCount, pendingProbes,
                   wsRetryCount, wsTests, wsTimeouts, intervals, web3Ws, wsBuilt,
                   wsLinked>>
    /\ UNCHANGED <<payVars, loaderVars, subVars>>

\* webSocketProvider.on('end') of provider p: its socket is closed.
WsEnd(p) ==
    /\ wsTimeouts < MaxPending
    /\ wsLinked' = wsLinked \ {p}
    /\ isWebSocketAvailable' = FALSE
    /\ IF wsRetryCount < MAX_WS_RETRIES
       THEN wsRetryCount' = wsRetryCount + 1 /\ wsTimeouts' = wsTimeouts + 1
       ELSE UNCHANGED <<wsRetryCount, wsTimeouts>>
    /\ UNCHANGED <<isBlockchainAvailable, blockchainRetryCount, pendingProbes,
                   wsTests, intervals, web3Ws, wsBuilt>>
    /\ UNCHANGED <<payVars, loaderVars, subVars>>

\* await web3Ws.eth.net.getId(): answered through the provider web3Ws is
\* bound to at the time of the call, when the socket of that provider is open.
PushAnswers == web3Ws \in wsLinked

\* The 1 s test of createWebSocketProvider: web3Ws.eth.net.getId()
WsTest ==
    /\ wsTests > 0
    /\ wsTests' = wsTests - 1
    /\ IF PushAnswers THEN isWebSocketAvailable' = TRUE ELSE UNCHANGED isWebSocketAvailable
    /\ UNCHANGED <<isBlockchainAvailable, blockchainRetryCount, pendingProbes,
                   wsRetryCount, wsTimeouts, intervals, web3Ws, wsBuilt, wsLinked>>
    /\ UNCHANGED <<payVars, loaderVars, subVars>>

\* GET /health: await isBlockchainHealthy()
HealthCheck ==
    /\ \E up \in BOOLEAN : isBlockchainAvailable' = up
    /\ UNCHANGED <<payVars, chainVars, loaderVars, subVars>>

\* The providers built so far.
Providers == 1..wsBuilt

\* The transports on their own: timers, provider events and health probes.
NextChain ==
    \/ ProbeSettled
    \/ ReconnectTimer
    \/ WsRetryTimeout
    \/ \E p \in Providers : WsConnect(p)
    \/ \E p \in Providers : WsError(p)
    \/ \E p \in Providers : WsEnd(p)
    \/ WsTest
    \/ HealthCheck

InitChain == Init /\ client = "ioredis"

SpecChain == InitChain /\ [][NextChain]_vars

----------------------------------------------------------------------------
(* Contract artifact loader: lib/blockchain.js *)

Versions == 1..MaxVersions
LoaderDelays == {1}

\* What a write at time t can leave at paymentProcessorPath: nothing, text
\* that is not JSON, JSON that is not an artifact (no abi, no networks), or
\* the artifact of deployment v.
Artifacts(t) ==
    {NoArtifact}
      \cup {[kind |-> k, version |-> Nil, mtime |-> t] : k \in {"badjson", "noshape"}}
      \cup {[kind |-> "artifact", version |-> v, mtime |-> t] : v \in Versions}

\* JSON.parse(contractJson) of a file that parses; abi and the deployed
\* address of one artifact carry its version.
Parse(a) ==
    IF a.kind = "artifact"
    THEN [abi |-> a.version, networks |-> TRUE, address |-> a.version]
    ELSE [abi |-> Nil, networks |-> FALSE, address |-> Nil]

\* The reload that takes the new abi but keeps a deployed address it already
\* holds.
AddressKept(old, new) ==
    [new EXCEPT !.address = IF old.address = Nil THEN new.address ELSE old.address]

\* PaymentProcessor = JSON.parse(contractJson): the binding is replaced whole.
Replaced(old, new) == new

\* loadContractAbi() up to and including the assignment of PaymentProcessor.
LoadContractAbi ==
    /\ checked' = TRUE
    /\ IF artifact.kind = "absent"
       THEN UNCHANGED PaymentProcessor /\ loading' = "idle"
       ELSE IF artifact.mtime > lastContractLoadTime
       THEN IF artifact.kind = "badjson"
            THEN \* JSON.parse throws; the catch logs
                 UNCHANGED PaymentProcessor /\ loading' = "idle"
            ELSE /\ PaymentProcessor' = Replaced(PaymentProcessor, Parse(artifact))
                 /\ loading' = "stamp"
       ELSE UNCHANGED PaymentProcessor /\ loading' = "idle"
    /\ UNCHANGED <<artifact, lastContractLoadTime, bindings, rewrites>>

\* loadContractAbi() at module load
InitialLoad ==
    /\ loading = "boot"
    /\ LoadContractAbi
    /\ UNCHANGED binder
    /\ UNCHANGED <<payVars, isBlockchainAvailable, chainVars, subVars>>

\* setInterval(loadContractAbi, CONTRACT_RELOAD_INTERVAL)
ReloadTimer ==
    /\ loading = "idle"
    /\ LoadContractAbi
    /\ UNCHANGED binder
    /\ UNCHANGED <<payVars, isBlockchainAvailable, chainVars, subVars>>

\* lastContractLoadTime = Date.now(), the statement after the assignment.
\* Nothing of the process runs between the two, but the file system is not
\* the process's.
LoadStamp ==
    /\ loading = "stamp"
    /\ lastContractLoadTime' = now
    /\ loading' = "idle"
    /\ UNCHANGED <<artifact, PaymentProcessor, binder, bindings, checked, rewrites>>
    /\ UNCHANGED <<payVars, isBlockchainAvailable, chainVars, subVars>>

\* A deployment tool (or anything else) writes or removes the artifact.
ArtifactWrite ==
    /\ rewrites < MaxRewrites
    /\ rewrites' = rewrites + 1
    /\ \E a \in Artifacts(now) : artifact' = a
    /\ checked' = FALSE
    /\ UNCHANGED <<PaymentProcessor, lastContractLoadTime, loading, binder, bindings>>
    /\ UNCHANGED <<payVars, isBlockchainAvailable, chainVars, subVars>>

\* What getPaymentProcessorContract builds the contract instance from:
\* PaymentProcessor.networks[networkId] and PaymentProcessor.abi.
CurrentDescriptor(pp) ==
    IF ~pp.networks \/ pp.address = Nil
    THEN [abi |-> Nil, address |-> Nil]
    ELSE [abi |-> pp.abi, address |-> pp.address]

Unavailable == [abi |-> Nil, address |-> Nil]

\* getPaymentProcessorContract(): the flag check and the on-demand
\* loadContractAbi(); a call made while the flag is down returns null at once.
BinderCall ==
    /\ binder = "idle"
    /\ loading = "idle"
    /\ isBlockchainAvailable
    /\ LoadContractAbi
    /\ binder' = "health"
    /\ UNCHANGED <<payVars, isBlockchainAvailable, chainVars, subVars>>

\* await isBlockchainHealthy() inside getPaymentProcessorContract
BinderHealth ==
    /\ binder = "health"
    /\ loading = "idle"
    /\ \E up \in BOOLEAN :
         /\ isBlockchainAvailable' = up
         /\ binder' = IF up THEN "netid" ELSE "idle"
    /\ UNCHANGED <<artifact, PaymentProcessor, lastContractLoadTime, loading,
                   bindings, checked, rewrites>>
    /\ UNCHANGED <<payVars, chainVars, subVars>>

\* await getId() settles; then, without another await, the deployment is
\* looked up and the contract instance built, or null is returned.
BinderBuild ==
    /\ binder = "netid"
    /\ loading = "idle"
    /\ binder' = "idle"
    /\ \E ok \in BOOLEAN :
         IF ok /\ CurrentDescriptor(PaymentProcessor) # Unavailable
         THEN bindings' = bindings \cup {CurrentDescriptor(PaymentProcessor)}
         ELSE UNCHANGED bindings
    /\ UNCHANGED <<artifact, PaymentProcessor, lastContractLoadTime, loading,
                   checked, rewrites>>
    /\ UNCHANGED <<payVars, isBlockchainAvailable, chainVars, subVars>>

\* The loader, its timer, writers of the artifact and callers asking for the
\* contract.
NextLoader ==
    \/ InitialLoad
    \/ ReloadTimer
    \/ LoadStamp
    \/ ArtifactWrite
    \/ BinderCall
    \/ BinderHealth
    \/ BinderBuild
    \/ HealthCheck
    \/ \E d \in LoaderDelays : Tick(d, MaxLoaderTicks)

InitLoader ==
    /\ Started(MaxRateFaults)
    /\ ModuleLoaded(Artifacts(0))
    /\ client = "ioredis"

SpecLoader == InitLoader /\ [][NextLoader]_vars

----------------------------------------------------------------------------
(* Event subscriber: payment.middleware.js *)

\* A PaymentProcessed event as web3 hands it to the 'data' handler:
\* returnValues and the block and transaction it was logged in.
Events ==
    {[paymentId |-> p, payer |-> Wallet, amount |-> a, date |-> a,
      tokenAddress |-> "0xToken", blockNumber |-> a, transactionHash |-> a] :
        p \in PaymentIds, a \in 1..MaxAmounts}

\* The object the handler passes to JSON.stringify: amount and date as
\* decimal strings, the other four fields as they are.
PaymentRecord(ev) ==
    [payer |-> ev.payer, amount |-> ToString(ev.amount), date |-> ToString(ev.date),
     tokenAddress |-> ev.tokenAddress, blockNumber |-> ev.blockNumber,
     transactionHash |-> ev.transactionHash]

\* How the promise of setupBlockchainEventListeners() settles when the setup
\* ends without a subscription: every early exit is a plain return and every
\* throw is caught by the function's own try/catch, so it resolves.
SetupOutcome == "resolved"

\* initializeEventListeners: the .catch attached to the promise, which runs
\* when the promise rejects; no timer is pending when it does.
Retrying(outcome) == outcome = "rejected" /\ retryCount < maxRetries

OnSetupSettled(outcome) ==
    /\ retryCount' = IF Retrying(outcome) THEN retryCount + 1 ELSE retryCount
    /\ startDelay' = IF Retrying(outcome) THEN RETRY_DELAY ELSE Nil

\* setTimeout(initializeEventListeners, ...) fires: setupBlockchainEventListeners()
\* runs up to the first await inside isEventSubscriptionHealthy(), which
\* returns false without a probe when the flag is down.
InitializeEventListeners ==
    /\ startDelay # Nil
    /\ IF ~isWebSocketAvailable
       THEN /\ sub' = "off"
            /\ OnSetupSettled(SetupOutcome)
       ELSE /\ sub' = "probe"
            /\ startDelay' = Nil
            /\ UNCHANGED retryCount
    /\ UNCHANGED lastEvent
    /\ UNCHANGED <<payVars, isBlockchainAvailable, chainVars, loaderVars>>

\* isEventSubscriptionHealthy(): await web3Ws.eth.net.getId() settles.
SubProbe ==
    /\ sub = "probe"
    /\ IF PushAnswers
       THEN /\ sub' = "contract"
            /\ UNCHANGED <<isWebSocketAvailable, retryCount, startDelay>>
       ELSE /\ sub' = "off"
            /\ isWebSocketAvailable' = FALSE
            /\ OnSetupSettled(SetupOutcome)
    /\ UNCHANGED lastEvent
    /\ UNCHANGED <<isBlockchainAvailable, blockchainRetryCount, wsRetryCount,
                   pendingProbes, wsTests, wsTimeouts, intervals, web3Ws, wsBuilt,
                   wsLinked>>
    /\ UNCHANGED <<payVars, loaderVars>>

\* const contract = await getPaymentProcessorContract(true), then
\* contract.events.PaymentProcessed({}) and the three listeners. The contract
\* is null when the flag is down, when the probe fails or when the artifact
\* has no deployment for the network.
SubContract ==
    /\ sub = "contract"
    /\ IF ~isWebSocketAvailable
       THEN /\ sub' = "off"
            /\ UNCHANGED isWebSocketAvailable
            /\ OnSetupSettled(SetupOutcome)
       ELSE IF ~PushAnswers
       THEN /\ sub' = "off"
            /\ isWebSocketAvailable' = FALSE
            /\ OnSetupSettled(SetupOutcome)
       ELSE \E deployed \in BOOLEAN :
            /\ UNCHANGED isWebSocketAvailable
            /\ IF deployed
               THEN sub' = "on" /\ UNCHANGED <<retryCount, startDelay>>
               ELSE sub' = "off" /\ OnSetupSettled(SetupOutcome)
    /\ UNCHANGED lastEvent
    /\ UNCHANGED <<isBlockchainAvailable, blockchainRetryCount, wsRetryCount,
                   pendingProbes, wsTests, wsTimeouts, intervals, web3Ws, wsBuilt,
                   wsLinked>>
    /\ UNCHANGED <<payVars, loaderVars>>

\* subscription.on('data'): the record is written under payment:<paymentId>;
\* a throw of the cache call is caught and logged.
SettlementEvent(ev) ==
    /\ sub = "on"
    /\ lastEvent' = ev
    /\ \E out \in CacheOutcomes(client) :
         IF out = "down"
         THEN faults' = faults - 1 /\ UNCHANGED cache
         ELSE /\ cache' = CacheSetEx(client, cache, PaymentKey(ev.paymentId),
                                     PaymentRecord(ev), EVENT_TTL, now)
              /\ UNCHANGED faults
    /\ UNCHANGED <<sub, retryCount, startDelay>>
    /\ UNCHANGED <<client, now, ticks, orders, wk, nreq, admits>>
    /\ UNCHANGED <<isBlockchainAvailable, chainVars, loaderVars>>

\* subscription.on('error'): the transport of the subscription failed and it
\* delivers nothing more; the handler logs.
SubscriptionError ==
    /\ sub = "on"
    /\ sub' = "failed"
    /\ UNCHANGED <<retryCount, startDelay, lastEvent>>
    /\ UNCHANGED <<payVars, isBlockchainAvailable, chainVars, loaderVars>>

\* One client's request next to the subscriber, the events it is sent and the
\* events of the push transport's provider.
NextEvents ==
    \/ \E w \in RateWorkers, h \in Hashes : Arrive(w, GoodBody, h, MaxEventRequests)
    \/ \E w \in RateWorkers : LockCheck(w)
    \/ \E w \in RateWorkers : LockSet(w)
    \/ \E w \in RateWorkers : RateIncr(w)
    \/ \E w \in RateWorkers : RateExpire(w)
    \/ \E w \in RateWorkers : ProcessedCheck(w)
    \/ \E w \in RateWorkers : HealthGate(w)
    \/ \E w \in RateWorkers : FetchReceipt(w)
    \/ \E w \in RateWorkers : GetContract(w)
    \/ \E w \in RateWorkers : ContractStatus(w)
    \/ \E w \in RateWorkers : CheckRecipient(w)
    \/ \E w \in RateWorkers : PersistOrder(w)
    \/ InitializeEventListeners
    \/ SubProbe
    \/ SubContract
    \/ \E ev \in Events : SettlementEvent(ev)
    \/ SubscriptionError
    \/ \E p \in Providers : WsConnect(p)
    \/ \E p \in Providers : WsError(p)
    \/ \E p \in Providers : WsEnd(p)
    \/ WsTest

SpecEvents == Init /\ [][NextEvents]_vars

\* Concurrent requests on two workers, one transaction hash.
Next ==
    \/ \E w \in Workers, b \in ReqBodies, h \in Hashes : Arrive(w, b, h, MaxRequests)
    \/ \E w \in Workers : LockCheck(w)
    \/ \E w \in Workers : LockSet(w)
    \/ \E w \in Workers : RateIncr(w)
    \/ \E w \in Workers : RateExpire(w)
    \/ \E w \in Workers : ProcessedCheck(w)
    \/ \E w \in Workers : HealthGate(w)
    \/ \E w \in Workers : FetchReceipt(w)
    \/ \E w \in Workers : GetContract(w)
    \/ \E w \in Workers : ContractStatus(w)
    \/ \E w \in Workers : CheckRecipient(w)
    \/ \E w \in Workers : PersistOrder(w)
    \/ \E d \in Delays : Tick(d, MaxTicks)

Spec == Init /\ [][Next]_vars

\* One wallet sending requests one after the other, each with a fresh hash.
NextRate ==
    \/ \E w \in RateWorkers : Arrive(w, GoodBody, nreq + 1, MaxRateRequests)
    \/ \E w \in RateWorkers : LockCheck(w)
    \/ \E w \in RateWorkers : LockSet(w)
    \/ \E w \in RateWorkers : RateIncr(w)
    \/ \E w \in RateWorkers : RateExpire(w)
    \/ \E w \in RateWorkers : ProcessedCheck(w)
    \/ \E w \in RateWorkers : HealthGate(w)
    \/ \E w \in RateWorkers : FetchReceipt(w)
    \/ \E w \in RateWorkers : GetContract(w)
    \/ \E w \in RateWorkers : ContractStatus(w)
    \/ \E w \in RateWorkers : CheckRecipient(w)
    \/ \E w \in RateWorkers : PersistOrder(w)
    \/ \E d \in RateDelays : Tick(d, MaxRateTicks)

SpecRate == InitRate /\ [][NextRate]_vars

\* One client's requests while the cache can fail on every call of a request.
InitOutage == Started(MaxOutages) /\ ModuleLoaded({NoArtifact})

NextOutage ==
    \/ \E w \in RateWorkers, b \in ReqBodies, h \in Hashes : Arrive(w, b, h, MaxRequests)
    \/ \E w \in RateWorkers : LockCheck(w)
    \/ \E w \in RateWorkers : LockSet(w)
    \/ \E w \in RateWorkers : RateIncr(w)
    \/ \E w \in RateWorkers : RateExpire(w)
    \/ \E w \in RateWorkers : ProcessedCheck(w)
    \/ \E w \in RateWorkers : HealthGate(w)
    \/ \E w \in RateWorkers : FetchReceipt(w)
    \/ \E w \in RateWorkers : GetContract(w)
    \/ \E w \in RateWorkers : ContractStatus(w)
    \/ \E w \in RateWorkers : CheckRecipient(w)
    \/ \E w \in RateWorkers : PersistOrder(w)
    \/ \E d \in Delays : Tick(d, MaxTicks)

SpecOutage == InitOutage /\ [][NextOutage]_vars

----------------------------------------------------------------------------
(* Properties *)

Done(w) == wk[w].pc = "done"

ControllerPcs == {"c_gettx", "c_health", "c_receipt", "c_contract", "c_status",
                  "c_gettxn", "c_save", "c_commit"}

\* The request was let through by validateCryptoPayment (next() was called).
PastGate(r) ==
    \/ r.pc \in ControllerPcs
    \/ r.pc = "done" /\ r.resp \notin {"InvalidRequest", "InFlight", "RateLimited"}

\* The request ran the ledger verification instead of being turned away as a
\* duplicate.
Proceeded(r) ==
    r.pc = "done" /\ r.resp \notin {"InvalidRequest", "InFlight", "RateLimited",
                                    "AlreadyProcessed"}

Apart(a, b) == IF a >= b THEN a - b ELSE b - a

\* C1: for every hash at most one order exists, and of two verify requests
\* for the same hash made within the lock's lifetime of each other (the cache
\* answering every call) at most one runs the verification; the other is
\* answered AlreadyProcessed or in-flight.
C1_AtMostOneVerificationPerHash ==
    /\ \A h \in Hashes : Cardinality(OrdersFor(h)) <= 1
    /\ \A w1, w2 \in Workers :
         ( /\ w1 # w2
           /\ wk[w1].hash = wk[w2].hash
           /\ ~wk[w1].cacheDown /\ ~wk[w2].cacheDown
           /\ Proceeded(wk[w1]) /\ Proceeded(wk[w2]) )
         => Apart(wk[w1].tget, wk[w2].tget) >= LOCK_TTL

\* C2: a request that met no cache outage and whose receipt, contract status
\* and recipient were all found good ends with the success response, exactly
\* one order for its hash and a tx:<hash> record holding that order's id.
C2_VerifiedRequestSucceeds ==
    \A w \in Workers :
        (Done(w) /\ LedgerVerified(wk[w]) /\ ~wk[w].cacheDown)
        => /\ wk[w].resp = "Success"
           /\ Cardinality(OrdersFor(wk[w].hash)) = 1
           /\ TxKey(wk[w].hash) \in DOMAIN cache
           /\ \E o \in OrdersFor(wk[w].hash) : cache[TxKey(wk[w].hash)].val = o.id

\* C3: a request for a hash that arrives after a fully verified request for
\* that hash was answered is answered AlreadyProcessed, and the hash has
\* exactly one order.
C3_ReplayIsAlreadyProcessed ==
    \A w \in Workers :
        (Done(w) /\ wk[w].replay /\ ~wk[w].cacheDown)
        => /\ wk[w].resp = "AlreadyProcessed"
           /\ Cardinality(OrdersFor(wk[w].hash)) = 1

\* C4: the in-flight lock of a hash is taken by one request at a time: of
\* the requests that found no tx-processing:<hash> within the lock's lifetime
\* of each other, at most one goes on to set it and proceed.
C4_LockAcquiredByOne ==
    \A w1, w2 \in Workers :
        (w1 # w2 /\ wk[w1].hash = wk[w2].hash
           /\ wk[w1].locked /\ wk[w2].locked)
        => Apart(wk[w1].tget, wk[w2].tget) >= LOCK_TTL

\* C5: one wallet sends well-formed requests with distinct hashes one after
\* the other, all within the first 60 s, the cache answering every call.  The
\* request in hand is the nreq-th of that window: the 1st to 10th are not
\* rate limited and the 11th and later ones do not get past the rate-limit
\* gate, whichever cache client is in use.
C5_EleventhRequestRejected ==
    now < RATE_WINDOW =>
      \A w \in RateWorkers :
        /\ nreq <= RATE_LIMIT => wk[w].resp # "RateLimited"
        /\ nreq > RATE_LIMIT => ~PastGate(wk[w])

\* C6: in any interval of 60 s, whatever its start, at most 10 requests of
\* the wallet were admitted past the rate-limit gate.
C6_RollingWindowCeiling ==
    \A i \in 1..Len(admits) :
        Cardinality({j \in 1..Len(admits) :
                       admits[j] >= admits[i] /\ admits[j] < admits[i] + RATE_WINDOW})
          <= RATE_LIMIT

\* C7: a request is answered "already being processed" only on a lock that
\* was set less than 300 s before.
C7_LockExpires ==
    \A w \in Workers :
        (Done(w) /\ wk[w].resp = "InFlight")
        => wk[w].tget - wk[w].lockSeen < LOCK_TTL

\* C8: every tx:<hash> record carries a TTL of at most 604800 s, and a hash
\* whose request was fully verified and answered has such a record.
C8_ProcessedRecordWritten ==
    /\ \A h \in Hashes :
         TxKey(h) \in DOMAIN cache
         => /\ cache[TxKey(h)].exp # NoExpiry
            /\ cache[TxKey(h)].exp <= now + PROCESSED_TTL
    /\ \A w \in Workers :
         (Done(w) /\ LedgerVerified(wk[w]) /\ ~wk[w].cacheDown)
         => TxKey(wk[w].hash) \in DOMAIN cache

\* C9: a request is at order creation (or has persisted an order) only if,
\* in this same execution, the receipt it fetched indicated success, the
\* contract status it read was truthy and the recipient it read matched the
\* contract address.
C9_OrderOnlyAfterLedgerChecks ==
    \A w \in Workers :
        (wk[w].pc \in {"c_save", "c_commit"} \/ wk[w].saved)
        => LedgerVerified(wk[w])

C9_Witness == \E w \in Workers : wk[w].pc = "c_save" /\ wk[w].rcp = "match"

\* C10: the step that finds the receipt missing or failed answers
\* TransactionFailed with status 400 and leaves the cache and the orders as
\* they were; the request takes no further step.
C10_FailedReceiptEndsRequest ==
    [][\A w \in Workers :
         (wk[w].pc = "c_receipt" /\ wk'[w].rcpt \in {"missing", "failed"})
         => /\ wk'[w].pc = "done"
            /\ wk'[w].resp = "TransactionFailed"
            /\ StatusOf(wk'[w].resp) = 400
            /\ ~wk'[w].saved
            /\ cache' = cache
            /\ orders' = orders]_vars

C10_Witness ==
    \E w \in Workers :
        /\ Done(w) /\ wk[w].rcpt = "failed" /\ wk[w].resp = "TransactionFailed"
        /\ LockKey(wk[w].hash) \in DOMAIN cache

\* C11: the health-gate step whose liveness probe fails answers
\* ServiceUnavailable with status 503, retryable: true and retryAfter: 60;
\* the request ends there with no receipt fetched, and the step leaves the
\* cache and the orders as they were.
C11_UnhealthyTransportIs503 ==
    [][\A w \in Workers :
         (wk[w].pc = "c_health" /\ wk'[w].pc # "c_health" /\ ~isBlockchainAvailable')
         => /\ wk'[w].pc = "done"
            /\ wk'[w].resp = "ServiceUnavailable"
            /\ StatusOf(wk'[w].resp) = 503
            /\ Retryable(wk'[w].resp)
            /\ RetryAfter(wk'[w].resp) = 60
            /\ wk'[w].rcpt = "none"
            /\ ~wk'[w].saved
            /\ cache' = cache
            /\ orders' = orders]_vars

C11_Witness ==
    \E w \in Workers :
        /\ Done(w) /\ wk[w].resp = "ServiceUnavailable" /\ wk[w].rcpt = "none"
        /\ ~isBlockchainAvailable

\* C12: once a transport has used up its reconnection attempts without
\* success (call transport: 5 attempts and every probe settled; push
\* transport: 10 attempts and every scheduled retry and test run), no step
\* starts a further attempt, and the call transport does not become
\* available again.
C12_ReconnectionIsTerminal ==
    [][/\ ( /\ blockchainRetryCount = MAX_BLOCKCHAIN_RETRIES
            /\ ~isBlockchainAvailable
            /\ pendingProbes = 0 )
          => (~isBlockchainAvailable' /\ pendingProbes' = 0)
       /\ ( /\ wsRetryCount = MAX_WS_RETRIES
            /\ ~isWebSocketAvailable
            /\ wsTimeouts = 0 /\ wsTests = 0 )
          => (wsTests' = 0 /\ wsTimeouts' = 0)]_vars

\* C13: every contract instance built so far has the abi and the address of
\* one and the same artifact version.
C13_BindingFromOneVersion ==
    \A b \in bindings : b.abi = b.address

\* Instances were built from two versions: a reload came between two calls.
C13_Witness ==
    \E b1, b2 \in bindings : b1.abi # b2.abi

\* C14: while a loaded descriptor is in effect, a load check that finds the
\* artifact missing or malformed leaves PaymentProcessor as it was; and once
\* contract instances have been issued, the descriptor they are built from
\* stays available.
C14_LastGoodDescriptorKept ==
    [][/\ ( /\ CurrentDescriptor(PaymentProcessor) # Unavailable
            /\ artifact.kind \in {"absent", "badjson", "noshape"} )
          => PaymentProcessor' = PaymentProcessor
       /\ bindings # {}
          => CurrentDescriptor(PaymentProcessor') # Unavailable]_vars

\* C20: once a reload check has run after the last write of the artifact and
\* the load is over, PaymentProcessor holds the content of the artifact on
\* disk.
C20_RedeploymentDetected ==
    (checked /\ loading = "idle" /\ artifact.kind = "artifact")
    => PaymentProcessor = Parse(artifact)

\* Responses that come out of the ledger verification (health gate onwards).
LedgerOutcomes ==
    {"ServiceUnavailable", "TransactionFailed", "NotSettled", "WrongRecipient",
     "ContractError", "BlockchainError", "Success"}

\* C15: a well-formed request that met a cache outage, on its first cache
\* call or on any later one, is not ended by it: it sets no lock once the
\* cache has failed and is answered by the ledger verification.
C15_CacheOutageDoesNotBlock ==
    \A w \in Workers :
        (Done(w) /\ wk[w].cacheDown) => wk[w].resp \in LedgerOutcomes

\* C16: every response with status 500 carries retryable: true.
C16_Every500IsRetryable ==
    \A w \in Workers :
        (Done(w) /\ StatusOf(wk[w].resp) = 500) => Retryable(wk[w].resp)

\* C17: a request whose transaction is absent, has no recipient or has a
\* recipient other than the contract address is answered WrongRecipient with
\* status 400 and is not retryable, and only such requests are; a recipient
\* that differs from the contract address in letter case only is accepted.
C17_WrongRecipientIs400 ==
    \A w \in Workers :
        /\ wk[w].rcp \in {"notx", "null", "other"}
           => /\ wk[w].resp = "WrongRecipient"
              /\ StatusOf(wk[w].resp) = 400
              /\ ~Retryable(wk[w].resp)
              /\ ~wk[w].saved
        /\ wk[w].rcp = "match" => wk[w].resp # "WrongRecipient"

\* C18: a request answered RateLimited or AlreadyProcessed has not set the
\* in-flight lock, and a request answered in-flight has found a lock and set
\* none.
C18_GatesBeforeLock ==
    \A w \in Workers :
        /\ wk[w].resp \in {"RateLimited", "AlreadyProcessed"} => ~wk[w].locked
        /\ wk[w].resp = "InFlight" => (wk[w].lockSeen # Nil /\ ~wk[w].locked)

\* C19: whenever tx-processing:<hash> is in the cache, a request for that
\* hash that set it is still executing (it has not been answered).
C19_LockMeansExecuting ==
    \A h \in Hashes :
        LockKey(h) \in DOMAIN cache
        => \E w \in Workers :
             wk[w].hash = h /\ wk[w].locked /\ wk[w].pc # "done"

\* C30: an existing wallet-requests:<address> key carries an expiry of at most
\* 60 s, also when incr and expire are separated by a failure or by another
\* request; the key a request has incremented and not yet passed to expire is
\* left out, so only the finished sequences are judged.
C30_WalletCounterExpires ==
    (/\ WalletKey(Wallet) \in DOMAIN cache
     /\ \A w \in Workers : wk[w].pc # "v_expire")
        => /\ cache[WalletKey(Wallet)].exp # NoExpiry
           /\ cache[WalletKey(Wallet)].exp <= now + RATE_WINDOW

\* C22: a reconnection started by the 15 s timer while an attempt of the call
\* transport is still in progress adds no second attempt and takes nothing
\* from the retry budget.
C22_ReconnectionIsIdempotent ==
    [][pendingProbes > 0 =>
          /\ pendingProbes' <= pendingProbes
          /\ blockchainRetryCount' <= blockchainRetryCount]_vars

\* C27: in every state 0 <= blockchainRetryCount <= 5 and 0 <= wsRetryCount
\* <= 10, and while a counter stands at its maximum no new reconnection
\* attempt is made for that transport: no probe is started, no retry is
\* scheduled, and a provider is built only by a retry that was scheduled and
\* counted before.
C27_RetryCountersBounded ==
    [][/\ blockchainRetryCount' \in 0..MAX_BLOCKCHAIN_RETRIES
       /\ wsRetryCount' \in 0..MAX_WS_RETRIES
       /\ blockchainRetryCount = MAX_BLOCKCHAIN_RETRIES => pendingProbes' <= pendingProbes
       /\ wsRetryCount = MAX_WS_RETRIES =>
             /\ wsTimeouts' <= wsTimeouts
             /\ wsBuilt' > wsBuilt => wsTimeouts' < wsTimeouts]_vars

\* Both budgets are spent, both transports are down, and the timer has fired
\* once more than the call transport's budget allows attempts.
C27_Witness ==
    /\ blockchainRetryCount = MAX_BLOCKCHAIN_RETRIES
    /\ wsRetryCount = MAX_WS_RETRIES
    /\ ~isBlockchainAvailable
    /\ ~isWebSocketAvailable
    /\ intervals > MAX_BLOCKCHAIN_RETRIES

\* C28: whenever isWebSocketAvailable is true, the provider web3Ws is bound to
\* is the connected one; events of a replaced provider do not mark the push
\* transport available.
C28_AvailableMeansCurrentConnected ==
    isWebSocketAvailable => web3Ws \in wsLinked

\* C21: a health call probes its transport, returns the probe's result and
\* leaves the availability flag equal to it: a request passes the health gate
\* exactly when the flag is left up; a start() of the subscriber passes
\* isEventSubscriptionHealthy exactly when the push transport answers, so a
\* push transport that answers again is reported healthy.
C21_HealthCallReportsProbe ==
    [][/\ \A w \in Workers :
            (wk[w].pc = "c_health" /\ wk'[w].pc # "c_health")
               => (isBlockchainAvailable' <=> wk'[w].pc = "c_receipt")
       /\ (sub = "probe" /\ sub' # "probe")
               => /\ isWebSocketAvailable' <=> sub' = "contract"
                  /\ sub' = "contract" <=> PushAnswers
       /\ (startDelay # Nil /\ sub' # sub /\ PushAnswers) => sub' = "probe"]_vars

\* A start() has failed.
FailedStart == sub # "off" /\ sub' = "off"

C24_ErrorLeadsToRebuild ==
    sub = "failed" => startDelay # Nil

\* The payment:<paymentId> entries of the cache.
PaymentEntries(c) == [k \in {x \in DOMAIN c : x[1] = "payment"} |-> c[k]]

\* C25: after a settlement event is delivered and its cache write has
\* returned, payment:<paymentId> holds that event's six fields with a TTL of
\* 259200 s, in place of any earlier record; the entries change in no step
\* other than the delivery of an event.
C25_EventRecorded ==
    [][/\ (lastEvent' # lastEvent /\ faults' = faults) =>
             /\ PaymentKey(lastEvent'.paymentId) \in DOMAIN cache'
             /\ cache'[PaymentKey(lastEvent'.paymentId)] =
                   [val |-> PaymentRecord(lastEvent'), exp |-> now + EVENT_TTL]
       /\ PaymentEntries(cache') # PaymentEntries(cache) => lastEvent' # lastEvent]_vars

\* The push side: the push transport's flag, counter, timers and providers,
\* the subscriber, and the payment:<paymentId> entries of the cache.
PushSide ==
    <<isWebSocketAvailable, wsRetryCount, wsTests, wsTimeouts, web3Ws, wsBuilt,
      wsLinked, subVars, PaymentEntries(cache)>>

\* What a verification reads and writes: the requests, the orders, the call
\* transport's flag and the cache entries other than payment:<paymentId>.
CallSide ==
    <<wk, orders, isBlockchainAvailable,
      [k \in {x \in DOMAIN cache : x[1] # "payment"} |-> cache[k]]>>

\* The response is the one the request's own ledger reads call for.
DeterminedByLedger(r) ==
    /\ r.resp = "TransactionFailed" <=> r.rcpt \in {"missing", "failed"}
    /\ r.resp = "ContractError" <=> r.pstat = "error"
    /\ r.resp = "NotSettled" <=> r.pstat = "false"
    /\ r.resp = "WrongRecipient" <=> r.rcp \in {"notx", "other"}
    /\ r.resp = "Success" => LedgerVerified(r) /\ r.saved

\* C26: the outcome of verify does not depend on the push side: whatever the
\* push availability, the push retry state and the payment:<paymentId>
\* records are, the response is the one the request's ledger reads call for;
\* no step of a request changes the push side and no step of the push side
\* changes what a request reads or writes.
C26_VerifyIgnoresPushSide ==
    [][/\ \A w \in Workers : wk'[w].pc = "done" => DeterminedByLedger(wk'[w])
       /\ wk' # wk => PushSide' = PushSide
       /\ PushSide' # PushSide => CallSide' = CallSide]_vars

\* The contract call said "not settled" and the request was refused, while
\* the push side is up, subscribed and holds a settlement record.
C26_Witness ==
    \E w \in Workers :
        /\ Done(w)
        /\ wk[w].resp = "NotSettled"
        /\ isWebSocketAvailable
        /\ sub = "on"
        /\ \E p \in PaymentIds : PaymentKey(p) \in DOMAIN cache

====
